---- MODULE Spec2Model ----
(***************************************************************************)
(* The Tutor component of src/src/app/tutor/tutor.ts: the conversation     *)
(* life cycle, the turn-taking between speech recognition and speech       *)
(* synthesis, the timers and asynchronous completions it schedules, and    *)
(* the localStorage-backed history.                                        *)
(*                                                                         *)
(* Every handler of the component runs to completion (single-threaded      *)
(* event loop), so every handler is one action.  The browser capabilities  *)
(* (SpeechRecognition, speechSynthesis, MediaRecorder, getUserMedia,       *)
(* setTimeout, localStorage, confirm) are modelled by the events they      *)
(* deliver to the handlers the component registers.                        *)
(***************************************************************************)
EXTENDS Integers, Sequences, FiniteSets, TLC

VARIABLES
    initialized,            \* ngOnInit has run
    now,                    \* Date.now(), in ticks
    selectedTopic,
    isListening,
    isSpeaking,
    isConversationActive,
    conversationStatus,
    currentConversation,
    conversationHistory,
    storage,                \* localStorage: the two keys the component uses
    recognition,            \* this.recognition ("none" when null) and the state
                            \* of the recognizer: "idle", "starting", "active",
                            \* "stopping" (stop() was called), "failed" (an
                            \* error was reported, the end event is due)
    window,                 \* which speech interfaces the browser offers
    synthesis,              \* the utterance queue of window.speechSynthesis
    mediaRecorder,          \* this.mediaRecorder and the state of the recorder
    recorderStops,          \* queued MediaRecorder 'stop' events
    micRequests,            \* getUserMedia promises not yet settled
    replyTimers,            \* setTimeout(..., 800) of processUserSpeech
    resumeTimers,           \* setTimeout(..., 500) of utterance.onend
    lastConfirm             \* the last confirm() dialog: the answer given and
                            \* the length of the history it was asked about

vars == << initialized, window, now, selectedTopic, isListening, isSpeaking,
           isConversationActive, conversationStatus, currentConversation,
           conversationHistory, storage, recognition, synthesis, mediaRecorder,
           recorderStops, micRequests, replyTimers, resumeTimers, lastConfirm >>

(***************************************************************************)
(* Bounds of the model.                                                    *)
(***************************************************************************)
\* The clock stops here: no handler that stores the time runs afterwards.
\* Handlers run at least a tick apart: each one that stores Date.now() in an
\* identifier or a timestamp stores a later time than the one before it.
\* The component is constructed and initialised at time 0.
MaxNow == 3
\* At most this many entries in each list the program lets grow without
\* limit: the utterance queue, each kind of timer, the getUserMedia promises,
\* the recorder stop events, the audio recordings of one conversation.
MaxQueue == 1

\* tutor.ts:486
HistoryCap == 50

\* JavaScript null / undefined / a removed localStorage key.
NULL == [null |-> TRUE]

\* The topics the user selects among (two of the six of the template, and
\* the one the component starts with).
Topics == {"daily-life", "food"}

\* Final transcripts the recognizer delivers, as character sequences.
Transcripts == { <<"o", "k", "?">> }

\* The values of Math.floor(Math.random() * n) the model draws.
RandomDraws == {0}

(***************************************************************************)
(* Text helpers.                                                           *)
(***************************************************************************)
\* String.prototype.includes for a one-character needle.
Includes(text, ch) == \E i \in 1..Len(text) : text[i] = ch

\* text.split(' ').length: one more than the number of spaces.
SplitLength(text) == 1 + Cardinality({ i \in 1..Len(text) : text[i] = " " })

(***************************************************************************)
(* Response generator.                                                     *)
(***************************************************************************)
GenericGreeting == "Hello! Let's practice English. What would you like to talk about?"

Greetings(topic) ==
    CASE topic = "daily-life" -> "Hello! Let's talk about daily life. How was your day today?"
      [] topic = "work"       -> "Hi there! Let's discuss work and business. What do you do for a living?"
      [] topic = "travel"     -> "Greetings! Ready to talk about travel? What's the most interesting place you've visited?"
      [] topic = "food"       -> "Hello! Let's chat about food. What's your favorite cuisine?"
      [] topic = "hobbies"    -> "Hi! What are your hobbies? I'd love to hear about what you enjoy doing in your free time."
      [] topic = "random"     -> "Hey! Let's have a casual chat. What's on your mind today?"
      [] OTHER                -> GenericGreeting

\* generateGreeting reads this.selectedTopic.
generateGreeting(topic) == Greetings(topic)

RandomPool ==
    << "Tell me more!",
       "That's interesting - why do you think that happened?",
       "Could you expand on that?" >>

Responses(topic) ==
    CASE topic = "daily-life" ->
           << "That's interesting! Tell me more about your daily routine.",
              "How do you usually spend your evenings?",
              "What do you like to do on weekends?",
              "That sounds like a busy day! Do you get enough time to relax?" >>
      [] topic = "work" ->
           << "That sounds fascinating! What do you enjoy most about your job?",
              "How long have you been working in this field?",
              "What skills are most important for your profession?",
              "That's impressive! What challenges do you face at work?" >>
      [] topic = "travel" ->
           << "Wow, that must have been an amazing experience! What did you like most?",
              "Would you like to visit there again? Why?",
              "What other places are on your travel wishlist?",
              "How did you plan your trip? Any tips for others?" >>
      [] topic = "food" ->
           << "That sounds delicious! How often do you eat that?",
              "Can you cook it yourself? What's the recipe?",
              "What other dishes do you enjoy from that cuisine?",
              "Have you tried making it at home? How did it turn out?" >>
      [] topic = "hobbies" ->
           << "That's a great hobby! How did you get started?",
              "How much time do you spend on it?",
              "What equipment or tools do you need?",
              "Have you met others who share this interest?" >>
      [] OTHER -> RandomPool

\* The values Math.floor(Math.random() * n) takes for a pool of n sentences.
RandomIndexes(n) == 0..(n - 1)

\* generateAIResponse with the elaboration prompt for five words too (<= 5).
generateAIResponse_OffByOne(topic, userText, r) ==
    LET topicResponses == Responses(topic)
        randomResponse == topicResponses[r + 1]
    IN  IF Includes(userText, "?") THEN << "That's a good question! ", randomResponse >>
        ELSE IF SplitLength(userText) <= 5
             THEN << "I see. Could you tell me more? ", randomResponse >>
             ELSE << "", randomResponse >>

\* generateAIResponse(userText) with this.selectedTopic = topic and the random
\* index r.  A reply is the pair << prefix, sentence >> whose concatenation
\* the code returns ("" for no prefix).
generateAIResponse(topic, userText, r) ==
    LET topicResponses == Responses(topic)
        randomResponse == topicResponses[r + 1]
    IN  IF Includes(userText, "?") THEN << "That's a good question! ", randomResponse >>
        ELSE IF SplitLength(userText) < 5
             THEN << "I see. Could you tell me more? ", randomResponse >>
             ELSE << "", randomResponse >>

(***************************************************************************)
(* Assessment engine.  Text is a sequence of characters.                   *)
(***************************************************************************)
LowerLetters ==
    { "a", "b", "c", "d", "e", "f", "g", "h", "i", "j", "k", "l", "m",
      "n", "o", "p", "q", "r", "s", "t", "u", "v", "w", "x", "y", "z" }

\* The upper-case letters the transcripts of the model use, and their
\* lower-case forms.
UpperToLower ==
    ("A" :> "a") @@ ("D" :> "d") @@ ("G" :> "g") @@ ("H" :> "h") @@
    ("I" :> "i") @@ ("W" :> "w") @@ ("Y" :> "y")

UpperLetters == DOMAIN UpperToLower

\* \w of a regular expression.
WordChars ==
    LowerLetters \cup UpperLetters \cup
    { "0", "1", "2", "3", "4", "5", "6", "7", "8", "9", "_" }

\* \s of a regular expression, as far as transcripts contain it.
Whitespace == { " " }

\* text.toLowerCase()
toLowerCase(text) ==
    [ i \in DOMAIN text |->
        IF text[i] \in UpperLetters THEN UpperToLower[text[i]] ELSE text[i] ]

\* text.includes(part) for a needle of any length.
IncludesText(text, part) ==
    \E i \in 1..(Len(text) - Len(part) + 1) :
        \A j \in 1..Len(part) : text[i + j - 1] = part[j]

\* The character at position i is a word character (FALSE outside the text).
WordAt(text, i) == i \in 1..Len(text) /\ text[i] \in WordChars

\* \b between the characters at positions i and i + 1.
Boundary(text, i) == WordAt(text, i) # WordAt(text, i + 1)

\* The text continues with `part` from position i.
StartsAt(text, i, part) ==
    /\ i >= 1
    /\ i + Len(part) - 1 <= Len(text)
    /\ \A j \in 1..Len(part) : text[i + j - 1] = part[j]

\* /\b(p1|p2|...)\s+verb\b/.test(text)
AgreementRule(text, pronouns, verb) ==
    \E i \in 1..Len(text) :
        /\ Boundary(text, i - 1)
        /\ \E p \in pronouns :
              /\ StartsAt(text, i, p)
              /\ \E k \in 1..(Len(text) - i - Len(p)) :
                    /\ \A j \in (i + Len(p))..(i + Len(p) + k - 1) :
                           text[j] \in Whitespace
                    /\ StartsAt(text, i + Len(p) + k, verb)
                    /\ Boundary(text, i + Len(p) + k + Len(verb) - 1)

\* The table of generateCorrection, in insertion order (Object.entries).
corrections ==
    << [ bad |-> << "i", " ", "a", "m", " ", "g", "o" >>,
         good |-> "I am going" ],
       [ bad |-> << "i", " ", "h", "a", "v", "e", " ", "w", "e", "n", "t" >>,
         good |-> "I have gone" ],
       [ bad |-> << "s", "h", "e", " ", "g", "o" >>,
         good |-> "she goes" ],
       [ bad |-> << "h", "e", " ", "g", "o" >>,
         good |-> "he goes" ],
       [ bad |-> << "t", "h", "e", "y", " ", "g", "o", "e", "s" >>,
         good |-> "they go" ],
       [ bad |-> << "i", " ", "d", "o", "e", "s", "n", "'", "t" >>,
         good |-> "I don't" ],
       [ bad |-> << "h", "e", " ", "d", "o", "n", "'", "t" >>,
         good |-> "he doesn't" ],
       [ bad |-> << "s", "h", "e", " ", "d", "o", "n", "'", "t" >>,
         good |-> "she doesn't" ],
       [ bad |-> << "y", "e", "s", "t", "e", "r", "d", "a", "y", " ", "i", " ", "g", "o" >>,
         good |-> "yesterday I went" ],
       [ bad |-> << "t", "o", "m", "o", "r", "r", "o", "w", " ", "i", " ", "g", "o" >>,
         good |-> "tomorrow I will go" ],
       [ bad |-> << "i", " ", "d", "i", "d", "n", "'", "t", " ", "w", "e", "n", "t" >>,
         good |-> "I didn't go" ] >>

\* `Did you mean: '${good}'?`
DidYouMean(good) == [ didYouMean |-> good ]

UseGoAdvice ==
    [ advice |-> "Remember: Use 'go' with I, you, we, they. Use 'goes' with he, she, it." ]
UseGoesAdvice ==
    [ advice |-> "Remember: Use 'goes' with he, she, it. Use 'go' with I, you, we, they." ]

PluralPronouns == { << "i" >>, << "y", "o", "u" >>, << "w", "e" >>, << "t", "h", "e", "y" >> }
SingularPronouns == { << "h", "e" >>, << "s", "h", "e" >>, << "i", "t" >> }

\* generateCorrection with the two agreement rules tried before the table.
generateCorrection_RulesFirst(text) ==
    LET lower == toLowerCase(text)
        hits == { n \in DOMAIN corrections : IncludesText(lower, corrections[n].bad) }
        first == CHOOSE n \in hits : \A m \in hits : n <= m
    IN  IF AgreementRule(lower, PluralPronouns, << "g", "o", "e", "s" >>) THEN UseGoAdvice
        ELSE IF AgreementRule(lower, SingularPronouns, << "g", "o" >>) THEN UseGoesAdvice
        ELSE IF hits # {} THEN DidYouMean(corrections[first].good)
        ELSE NULL

\* generateCorrection(text): the first table entry the lower-cased text
\* contains, else the agreement rules, else null.
generateCorrection(text) ==
    LET lower == toLowerCase(text)
        hits == { n \in DOMAIN corrections : IncludesText(lower, corrections[n].bad) }
        first == CHOOSE n \in hits : \A m \in hits : n <= m
    IN  IF hits # {} THEN DidYouMean(corrections[first].good)
        ELSE IF AgreementRule(lower, PluralPronouns, << "g", "o", "e", "s" >>) THEN UseGoAdvice
        ELSE IF AgreementRule(lower, SingularPronouns, << "g", "o" >>) THEN UseGoesAdvice
        ELSE NULL

\* text.trim().split(/\s+/).length: the number of words, and 1 for a blank
\* text (the split of "" is [""]).
TrimSplitLength(text) ==
    LET starts == { i \in 1..Len(text) :
                      text[i] \notin Whitespace /\ (i = 1 \/ text[i - 1] \in Whitespace) }
    IN  IF starts = {} THEN 1 ELSE Cardinality(starts)

\* text.match(/\b\w{8,}\b/g): the runs of eight or more word characters.
ComplexWords(text) ==
    { i \in 1..Len(text) :
        /\ ~WordAt(text, i - 1)
        /\ \A j \in i..(i + 7) : WordAt(text, j) }

challengingSounds == { << "t", "h" >>, << "r" >>, << "l" >>, << "v" >>, << "w" >> }

Min(a, b) == IF a < b THEN a ELSE b
Max(a, b) == IF a > b THEN a ELSE b

\* The score of assessPronunciation before Math.round and the clamp.
RawScore(text) ==
    LET wordCount == TrimSplitLength(text)
        found == { s \in challengingSounds : IncludesText(toLowerCase(text), s) }
    IN  70 + (IF wordCount > 5 THEN 10 ELSE 0)
           + (IF wordCount > 10 THEN 10 ELSE 0)
           + Min(Cardinality(ComplexWords(text)) * 2, 10)
           + (IF Includes(text, ",") THEN 5 ELSE 0)
           + (IF Includes(text, ".") THEN 5 ELSE 0)
           - (IF wordCount < 3 THEN 20 ELSE 0)
           + (IF Cardinality(found) >= 2 THEN 5 ELSE 0)

\* assessPronunciation returning the score as computed, without the clamp.
assessPronunciation_NoClamp(text) == RawScore(text)

\* assessPronunciation(text); the score is a whole number, Math.round keeps it.
assessPronunciation(text) == Max(0, Min(100, RawScore(text)))

\* The bands of generatePronunciationFeedback.
Feedback(score) ==
    IF score >= 90
    THEN "Excellent pronunciation! Your speech is very clear and natural."
    ELSE IF score >= 80
    THEN "Great job! Your pronunciation is good with minor improvements possible."
    ELSE IF score >= 70 THEN "Good effort! Focus on clarity and word stress."
    ELSE IF score >= 60 THEN "Keep practicing! Try to speak more slowly and clearly."
    ELSE "Don't worry! Practice basic sounds and short phrases first."

\* generatePronunciationFeedback(text)
generatePronunciationFeedback(text) == Feedback(assessPronunciation(text))

\* tutor.ts:441: what the catch block of assessPronunciation returns.
CaughtScore == 70

\* Final transcripts for the assessment engine and the response generator:
\* trimmed, not blank, the words one space apart, as recognizers deliver them.
HeGoToSchool ==
    << "h", "e", " ", "g", "o", " ", "t", "o", " ", "s", "c", "h", "o", "o",
       "l" >>
ItGoThere ==
    << "i", "t", " ", "g", "o", " ", "t", "h", "e", "r", "e" >>
WeGoesOut ==
    << "w", "e", " ", "g", "o", "e", "s", " ", "o", "u", "t" >>
ILoveIt ==
    << "I", " ", "l", "o", "v", "e", " ", "i", "t" >>
Hi ==
    << "H", "i" >>
WeLikeToEatPizza ==
    << "w", "e", " ", "l", "i", "k", "e", " ", "t", "o", " ", "e", "a", "t",
       " ", "p", "i", "z", "z", "a" >>
DoYouLikePizza ==
    << "D", "o", " ", "y", "o", "u", " ", "l", "i", "k", "e", " ", "p", "i",
       "z", "z", "a", "?" >>
EveryBonus ==
    << "Y", "e", "s", "t", "e", "r", "d", "a", "y", ",", " ", "t", "h", "e",
       " ", "w", "e", "a", "t", "h", "e", "r", " ", "s", "u", "d", "d", "e",
       "n", "l", "y", " ", "i", "m", "p", "r", "o", "v", "e", "d", " ", "a",
       "n", "d", " ", "t", "h", "e", "r", "e", "f", "o", "r", "e", " ", "e",
       "v", "e", "r", "y", "b", "o", "d", "y", " ", "h", "a", "p", "p", "i",
       "l", "y", " ", "t", "r", "a", "v", "e", "l", "e", "d", " ", "t", "o",
       "g", "e", "t", "h", "e", "r", " ", "t", "h", "r", "o", "u", "g", "h",
       " ", "w", "o", "n", "d", "e", "r", "f", "u", "l", " ", "m", "o", "u",
       "n", "t", "a", "i", "n", "s", "." >>
AssessedTranscripts ==
    { HeGoToSchool, ItGoThere, WeGoesOut, ILoveIt, Hi, WeLikeToEatPizza,
      DoYouLikePizza, EveryBonus }

\* Every transcript of the model.
AllTranscripts == Transcripts \cup AssessedTranscripts

\* processUserSpeech's calls of the assessment engine for a transcript.
Assess(transcript) ==
    [ correction            |-> generateCorrection(transcript),
      pronunciationScore    |-> assessPronunciation(transcript),
      pronunciationFeedback |-> generatePronunciationFeedback(transcript) ]

\* The assessment of every transcript of the model, computed once.
Assessments == [ t \in AllTranscripts |-> Assess(t) ]

\* The steps of the assessment engine whose try block can throw.
AssessmentSteps == {"correction", "scoring"}

\* AssessFaulting with a catch block of assessPronunciation that returns 0.
AssessFaulting_ZeroOnFault(transcript, faults) ==
    [ correction            |-> IF "correction" \in faults THEN NULL
                                ELSE Assessments[transcript].correction,
      pronunciationScore    |-> IF "scoring" \in faults THEN 0
                                ELSE Assessments[transcript].pronunciationScore,
      pronunciationFeedback |-> IF "scoring" \in faults THEN Feedback(0)
                                ELSE Assessments[transcript].pronunciationFeedback ]

\* processUserSpeech's calls of the assessment engine for a transcript on
\* which the steps in `faults` throw inside their try block, each time they
\* are called: the catch block of generateCorrection returns null, that of
\* assessPronunciation returns 70, and generatePronunciationFeedback bands
\* what its own call of assessPronunciation returns.
AssessFaulting(transcript, faults) ==
    [ correction            |-> IF "correction" \in faults THEN NULL
                                ELSE Assessments[transcript].correction,
      pronunciationScore    |-> IF "scoring" \in faults THEN CaughtScore
                                ELSE Assessments[transcript].pronunciationScore,
      pronunciationFeedback |-> IF "scoring" \in faults THEN Feedback(CaughtScore)
                                ELSE Assessments[transcript].pronunciationFeedback ]

(***************************************************************************)
(* Records.                                                                *)
(***************************************************************************)
\* Date.now().toString()
DateNowString(t) == ToString(t)

\* new Date().toISOString(): the string that denotes the instant t.
toISOString(t) == [iso |-> t]

\* The object literal of startNewConversation.
NewConversation(t, topic) ==
    [ id              |-> DateNowString(t),
      startTime       |-> toISOString(t),
      endTime         |-> NULL,
      topic           |-> topic,
      difficulty      |-> "beginner",
      messages        |-> << >>,
      audioRecordings |-> << >> ]

\* The object literal of processUserSpeech.  `conv` is not a field of the
\* program's message: it records the conversation the message was produced for.
UserMessageFaulting(t, transcript, conv, faults) ==
    [ id                    |-> DateNowString(t),
      type                  |-> "user",
      text                  |-> transcript,
      timestamp             |-> toISOString(t),
      correction            |-> AssessFaulting(transcript, faults).correction,
      pronunciationScore    |-> AssessFaulting(transcript, faults).pronunciationScore,
      pronunciationFeedback |-> AssessFaulting(transcript, faults).pronunciationFeedback,
      audioUrl              |-> NULL,
      conv      |-> conv ]

\* The same when no step of the assessment engine throws.
UserMessage(t, transcript, conv) == UserMessageFaulting(t, transcript, conv, {})

\* The object literal of addAIMessage.
AIMessage(t, text, conv) ==
    [ id        |-> DateNowString(t),
      type      |-> "ai",
      text      |-> text,
      timestamp |-> toISOString(t),
      audioUrl  |-> NULL,
      conv      |-> conv ]

\* messages.push(m)
Push(conversation, m) ==
    [conversation EXCEPT !.messages = Append(@, m)]

\* URL.createObjectURL(blob) and the Blob it names.
ObjectUrl == [url |-> "blob:recording"]
AudioBlob == [blob |-> "audio/wav"]
EmptyObject == [object |-> "{}"]

(***************************************************************************)
(* localStorage and JSON.                                                  *)
(***************************************************************************)
\* JSON.stringify of a conversation: every field is a string, a number, null
\* or an array of such, except the Blob of an audio recording, which has no
\* enumerable property and serialises as {}.
StringifyConversation(c) ==
    [c EXCEPT !.audioRecordings =
        [ i \in DOMAIN @ |-> [ url |-> @[i].url, blob |-> EmptyObject ] ] ]

Stringify(v) == [json |-> v]
Parse(s) == s.json

\* saveCurrentConversation
saveCurrentConversation(store, conversation) ==
    IF conversation # NULL
    THEN [store EXCEPT !.currentConversation =
                           Stringify(StringifyConversation(conversation))]
    ELSE store

\* Unshift with the slice taken from the wrong end (slice(-50)): the newest
\* entry is the one dropped.
Unshift_DropsNewest(history, conversation) ==
    LET all == << conversation >> \o history
    IN  IF Len(all) > HistoryCap THEN SubSeq(all, 2, HistoryCap + 1) ELSE all

\* The array saveConversation leaves in this.conversationHistory: unshift,
\* then slice(0, 50) when longer than 50.
Unshift(history, conversation) ==
    LET all == << conversation >> \o history
    IN  IF Len(all) > HistoryCap THEN SubSeq(all, 1, HistoryCap) ELSE all

\* conversation.endTime = conversation.endTime || new Date().toISOString()
WithEndTime(conversation, t) ==
    IF conversation.endTime = NULL THEN [conversation EXCEPT !.endTime = toISOString(t)]
    ELSE conversation

\* saveConversation's writes without the removeItem('currentConversation').
saveConversationStore_KeepsSnapshot(store, history) ==
    [ conversationHistory |-> Stringify([ i \in DOMAIN history |->
                                            StringifyConversation(history[i]) ]),
      currentConversation |-> store.currentConversation ]

\* saveConversation's writes to localStorage.
saveConversationStore(store, history) ==
    [ conversationHistory |-> Stringify([ i \in DOMAIN history |->
                                            StringifyConversation(history[i]) ]),
      currentConversation |-> NULL ]

(***************************************************************************)
(* Status and the speech capabilities.                                     *)
(***************************************************************************)
\* updateStatus
updateStatus(listening, speaking) ==
    IF listening THEN "listening" ELSE IF speaking THEN "speaking" ELSE "idle"

\* synthesis.speaking: an utterance has begun and has not ended.
SynthesisSpeaking(queue) == \E i \in 1..Len(queue) : queue[i].st = "speaking"

\* synthesis.cancel(): every queued utterance is removed; an event (error) is
\* still delivered to each, in order.
SynthesisCancel(queue) == [ i \in DOMAIN queue |-> [queue[i] EXCEPT !.st = "cancelled"] ]

\* speakResponse(text): the queue of window.speechSynthesis afterwards.  `conv`
\* and `uid` tag the utterance with the conversation whose message it speaks and
\* with the user message it replies to ("" for a greeting).
speakResponse(win, queue, text, conv, uid) ==
    IF ~win.speechSynthesis THEN queue
    ELSE LET q == IF SynthesisSpeaking(queue) THEN SynthesisCancel(queue) ELSE queue
         IN  Append(q, [text |-> text, st |-> "pending", conv |-> conv, uid |-> uid])

\* recognition.stop() as stopListening calls it.
RecognitionAfterStop(rec, listening) ==
    IF rec # "none" /\ listening /\ rec = "active" THEN "stopping" ELSE rec

\* recognition.start(): InvalidStateError (caught by startListening) unless
\* the recognizer is at rest.
RecognitionAfterStart(rec) == IF rec = "idle" THEN "starting" ELSE rec

\* stopListening(): the recognizer, the recorder, its queued stop events and
\* the flags afterwards.
stopListening(rec, recorder, stops, listening, speaking) ==
    [ recognition   |-> RecognitionAfterStop(rec, listening),
      mediaRecorder |-> IF recorder = "recording" THEN "inactive" ELSE recorder,
      recorderStops |-> IF recorder = "recording" THEN stops + 1 ELSE stops,
      isListening   |-> FALSE,
      status        |-> updateStatus(FALSE, speaking) ]

\* addAIMessage(text) at time t: the conversation, localStorage and the
\* utterance queue afterwards.  With no current conversation the push throws
\* and the catch block leaves all three as they were.
addAIMessage(win, conversation, store, queue, t, text, conv, uid) ==
    IF conversation = NULL
    THEN [ conversation |-> conversation, storage |-> store, queue |-> queue ]
    ELSE LET c == Push(conversation, AIMessage(t, text, conv))
         IN  [ conversation |-> c,
               storage      |-> saveCurrentConversation(store, c),
               queue        |-> speakResponse(win, queue, text, c.id, uid) ]

\* startNewConversation() at time t.
startNewConversation(win, topic, store, queue, t) ==
    LET c == NewConversation(t, topic)
    IN  addAIMessage(win, c, store, queue, t, << "", generateGreeting(topic) >>, c.id, "")

\* saveConversation(conversation) at time t: history and localStorage.
saveConversation(history, store, conversation, t) ==
    LET h == Unshift(history, WithEndTime(conversation, t))
    IN  [ history |-> h, storage |-> saveConversationStore(store, h) ]

(***************************************************************************)
(* Initial states: the component as constructed, before ngOnInit.          *)
(***************************************************************************)
Constructed ==
    /\ initialized = FALSE
    /\ now = 0
    /\ selectedTopic = "daily-life"
    /\ isListening = FALSE
    /\ isSpeaking = FALSE
    /\ isConversationActive = FALSE
    /\ conversationStatus = "idle"
    /\ currentConversation = NULL
    /\ conversationHistory = << >>
    /\ recognition = "none"
    /\ synthesis = << >>
    /\ mediaRecorder = "none"
    /\ recorderStops = 0
    /\ micRequests = 0
    /\ replyTimers = << >>
    /\ resumeTimers = << >>
    /\ lastConfirm = [ answer |-> "none", entries |-> 0 ]

EmptyStorage == [ conversationHistory |-> NULL, currentConversation |-> NULL ]

\* A browser with speech recognition and speech synthesis, and nothing left
\* in localStorage by an earlier session.
Init ==
    /\ Constructed
    /\ window = [ SpeechRecognition |-> TRUE, speechSynthesis |-> TRUE ]
    /\ storage = EmptyStorage

(***************************************************************************)
(* Life cycle.                                                             *)
(***************************************************************************)
\* A stored string that is not JSON: JSON.parse throws.
Unparsable == [ unparsable |-> "conversation" ]

\* A stored string that is JSON, of a value that is not an array ("{}"):
\* JSON.parse returns it, the spread [...value] throws.
NotIterable == [ notIterable |-> "{}" ]

\* loadHistory(): the history, the current conversation and the active flag
\* it leaves.  The catch block empties the history and leaves the other two
\* as they are when the exception is thrown: as constructed when a
\* JSON.parse throws, as restored when the spread of the history throws.
loadHistory(store) ==
    LET saved == store.conversationHistory
        current == store.currentConversation
    IN  IF saved = Unparsable \/ current = Unparsable
        THEN [ history |-> << >>, conversation |-> NULL, active |-> FALSE ]
        ELSE [ history      |-> IF saved = NULL \/ saved = NotIterable
                                THEN << >> ELSE Parse(saved),
               conversation |-> IF current # NULL THEN Parse(current) ELSE NULL,
               active       |-> current # NULL ]

\* initSpeechRecognition()
initSpeechRecognition(win) == IF win.SpeechRecognition THEN "idle" ELSE "none"

\* ngOnInit(): loadHistory, initSpeechRecognition, startNewConversation.
NgOnInit ==
    /\ ~initialized
    /\ initialized' = TRUE
    /\ LET loaded == loadHistory(storage)
           started == startNewConversation(window, selectedTopic, storage, synthesis, now)
       IN  /\ conversationHistory' = loaded.history
           /\ recognition' = initSpeechRecognition(window)
           /\ currentConversation' = started.conversation
           /\ storage' = started.storage
           /\ synthesis' = started.queue
    /\ isConversationActive' = TRUE
    /\ UNCHANGED << window, now, selectedTopic, isListening, isSpeaking, conversationStatus,
                    mediaRecorder, recorderStops, micRequests, replyTimers, resumeTimers >>
    /\ UNCHANGED lastConfirm

\* The "new conversation" button: startNewConversation().
StartNewConversation ==
    /\ initialized
    /\ now < MaxNow
    /\ ~window.speechSynthesis \/ Len(synthesis) < MaxQueue
    /\ now' = now + 1
    /\ LET started == startNewConversation(window, selectedTopic, storage, synthesis, now')
       IN  /\ currentConversation' = started.conversation
           /\ storage' = started.storage
           /\ synthesis' = started.queue
    /\ isConversationActive' = TRUE
    /\ UNCHANGED << initialized, window, selectedTopic, isListening, isSpeaking,
                    conversationStatus, conversationHistory, recognition, mediaRecorder,
                    recorderStops, micRequests, replyTimers, resumeTimers >>
    /\ UNCHANGED lastConfirm

\* endConversation()
EndConversation ==
    /\ initialized
    /\ (currentConversation # NULL /\ Len(currentConversation.messages) > 0) => now < MaxNow
    /\ mediaRecorder = "recording" => recorderStops < MaxQueue
    /\ LET archive == currentConversation # NULL /\ Len(currentConversation.messages) > 0
           saved == saveConversation(conversationHistory, storage,
                        [currentConversation EXCEPT !.endTime = toISOString(now')], now')
           stopped == stopListening(recognition, mediaRecorder, recorderStops,
                                    isListening, isSpeaking)
       IN  /\ now' = IF archive THEN now + 1 ELSE now
           /\ conversationHistory' = IF archive THEN saved.history ELSE conversationHistory
           /\ storage' = IF archive THEN saved.storage ELSE storage
           /\ recognition' = stopped.recognition
           /\ mediaRecorder' = stopped.mediaRecorder
           /\ recorderStops' = stopped.recorderStops
           /\ isListening' = stopped.isListening
           /\ conversationStatus' = stopped.status
    /\ isConversationActive' = FALSE
    /\ currentConversation' = NULL
    /\ UNCHANGED << initialized, window, selectedTopic, isSpeaking, synthesis,
                    micRequests, replyTimers, resumeTimers >>
    /\ UNCHANGED lastConfirm

\* pauseConversation()
PauseConversation ==
    /\ initialized
    /\ mediaRecorder = "recording" => recorderStops < MaxQueue
    /\ LET stopped == stopListening(recognition, mediaRecorder, recorderStops,
                                    isListening, isSpeaking)
       IN  /\ recognition' = stopped.recognition
           /\ mediaRecorder' = stopped.mediaRecorder
           /\ recorderStops' = stopped.recorderStops
           /\ isListening' = stopped.isListening
           /\ conversationStatus' = stopped.status
    /\ isConversationActive' = FALSE
    /\ UNCHANGED << initialized, window, now, selectedTopic, isSpeaking,
                    currentConversation, conversationHistory, storage, synthesis,
                    micRequests, replyTimers, resumeTimers >>
    /\ UNCHANGED lastConfirm

\* The topic selector of the template, bound to selectedTopic.
SelectTopic(topic) ==
    /\ initialized
    /\ topic # selectedTopic
    /\ selectedTopic' = topic
    /\ UNCHANGED << initialized, window, now, isListening, isSpeaking,
                    isConversationActive, conversationStatus, currentConversation,
                    conversationHistory, storage, recognition, synthesis, mediaRecorder,
                    recorderStops, micRequests, replyTimers, resumeTimers >>
    /\ UNCHANGED lastConfirm

\* clearHistory() without its removeItem('currentConversation').
ClearHistory_KeepsSnapshot(confirmed) ==
    /\ initialized
    /\ lastConfirm' = [ answer  |-> IF confirmed THEN "yes" ELSE "no",
                        entries |-> Len(conversationHistory) ]
    /\ IF confirmed
       THEN /\ conversationHistory' = << >>
            /\ storage' = [storage EXCEPT !.conversationHistory = NULL]
       ELSE UNCHANGED << conversationHistory, storage >>
    /\ UNCHANGED << initialized, window, now, selectedTopic, isListening, isSpeaking,
                    isConversationActive, conversationStatus, currentConversation,
                    recognition, synthesis, mediaRecorder, recorderStops, micRequests,
                    replyTimers, resumeTimers >>

\* clearHistory(); `confirmed` is the answer to confirm().
ClearHistory(confirmed) ==
    /\ initialized
    /\ lastConfirm' = [ answer  |-> IF confirmed THEN "yes" ELSE "no",
                        entries |-> Len(conversationHistory) ]
    /\ IF confirmed
       THEN /\ conversationHistory' = << >>
            /\ storage' = EmptyStorage
       ELSE UNCHANGED << conversationHistory, storage >>
    /\ UNCHANGED << initialized, window, now, selectedTopic, isListening, isSpeaking,
                    isConversationActive, conversationStatus, currentConversation,
                    recognition, synthesis, mediaRecorder, recorderStops, micRequests,
                    replyTimers, resumeTimers >>

(***************************************************************************)
(* Speech control.                                                         *)
(***************************************************************************)
\* startListening() up to its await: with no recognizer it reports an error
\* and returns; otherwise it starts a conversation when none is active and
\* asks for the microphone.  The variables it leaves alone are named by the
\* callers.
StartListeningCall ==
    IF recognition = "none"
    THEN UNCHANGED << now, isConversationActive, currentConversation, storage,
                      synthesis, micRequests >>
    ELSE /\ micRequests < MaxQueue
         /\ micRequests' = micRequests + 1
         /\ IF ~isConversationActive
            THEN /\ now < MaxNow
                 /\ ~window.speechSynthesis \/ Len(synthesis) < MaxQueue
                 /\ now' = now + 1
                 /\ LET started == startNewConversation(window, selectedTopic, storage,
                                                        synthesis, now')
                    IN  /\ currentConversation' = started.conversation
                        /\ storage' = started.storage
                        /\ synthesis' = started.queue
                 /\ isConversationActive' = TRUE
            ELSE UNCHANGED << now, isConversationActive, currentConversation, storage,
                              synthesis >>

\* The microphone button: startListening().
StartListening ==
    /\ initialized
    /\ StartListeningCall
    /\ UNCHANGED << initialized, window, selectedTopic, isListening, isSpeaking,
                    conversationStatus, conversationHistory, recognition, mediaRecorder,
                    recorderStops, replyTimers, resumeTimers >>
    /\ UNCHANGED lastConfirm

\* getUserMedia resolves: the rest of startListening() runs.  A new
\* MediaRecorder (the browsers with SpeechRecognition have it) replaces
\* this.mediaRecorder and starts; recognition.start().
MicrophoneGranted ==
    /\ micRequests > 0
    /\ micRequests' = micRequests - 1
    /\ mediaRecorder' = "recording"
    /\ recognition' = RecognitionAfterStart(recognition)
    /\ UNCHANGED << initialized, window, now, selectedTopic, isListening, isSpeaking,
                    isConversationActive, conversationStatus, currentConversation,
                    conversationHistory, storage, synthesis, recorderStops,
                    replyTimers, resumeTimers >>
    /\ UNCHANGED lastConfirm

\* getUserMedia rejects: the catch block of startListening() reports it.
MicrophoneDenied ==
    /\ micRequests > 0
    /\ micRequests' = micRequests - 1
    /\ UNCHANGED << initialized, window, now, selectedTopic, isListening, isSpeaking,
                    isConversationActive, conversationStatus, currentConversation,
                    conversationHistory, storage, recognition, synthesis, mediaRecorder,
                    recorderStops, replyTimers, resumeTimers >>
    /\ UNCHANGED lastConfirm

\* The stop button: stopListening().
StopListening ==
    /\ initialized
    /\ mediaRecorder = "recording" => recorderStops < MaxQueue
    /\ LET stopped == stopListening(recognition, mediaRecorder, recorderStops,
                                    isListening, isSpeaking)
       IN  /\ recognition' = stopped.recognition
           /\ mediaRecorder' = stopped.mediaRecorder
           /\ recorderStops' = stopped.recorderStops
           /\ isListening' = stopped.isListening
           /\ conversationStatus' = stopped.status
    /\ UNCHANGED << initialized, window, now, selectedTopic, isSpeaking,
                    isConversationActive, currentConversation, conversationHistory,
                    storage, synthesis, micRequests, replyTimers, resumeTimers >>
    /\ UNCHANGED lastConfirm

\* recognition.onstart
RecognitionOnStart ==
    /\ recognition = "starting"
    /\ recognition' = "active"
    /\ isListening' = TRUE
    /\ conversationStatus' = updateStatus(TRUE, isSpeaking)
    /\ UNCHANGED << initialized, window, now, selectedTopic, isSpeaking,
                    isConversationActive, currentConversation, conversationHistory,
                    storage, synthesis, mediaRecorder, recorderStops, micRequests,
                    replyTimers, resumeTimers >>
    /\ UNCHANGED lastConfirm

\* recognition.onend: after stop(), after an error, or when the recognizer
\* ends on its own.
RecognitionOnEnd ==
    /\ recognition \in {"active", "stopping", "failed"}
    /\ recognition' = "idle"
    /\ isListening' = FALSE
    /\ conversationStatus' = updateStatus(FALSE, isSpeaking)
    /\ UNCHANGED << initialized, window, now, selectedTopic, isSpeaking,
                    isConversationActive, currentConversation, conversationHistory,
                    storage, synthesis, mediaRecorder, recorderStops, micRequests,
                    replyTimers, resumeTimers >>
    /\ UNCHANGED lastConfirm

\* recognition.onerror: showError, stopListening(); the recognizer then ends.
RecognitionOnError ==
    /\ recognition \in {"starting", "active"}
    /\ mediaRecorder = "recording" => recorderStops < MaxQueue
    /\ LET stopped == stopListening(recognition, mediaRecorder, recorderStops,
                                    isListening, isSpeaking)
       IN  /\ mediaRecorder' = stopped.mediaRecorder
           /\ recorderStops' = stopped.recorderStops
           /\ isListening' = stopped.isListening
           /\ conversationStatus' = stopped.status
    /\ recognition' = "failed"
    /\ UNCHANGED << initialized, window, now, selectedTopic, isSpeaking,
                    isConversationActive, currentConversation, conversationHistory,
                    storage, synthesis, micRequests, replyTimers, resumeTimers >>
    /\ UNCHANGED lastConfirm

\* recognition.onresult with a final, non-blank transcript:
\* processUserSpeech(transcript).  A recognizer that was told to stop still
\* delivers the result of the audio it has.  With no current conversation the
\* push throws and the catch block reports it: nothing else happens.  The
\* timer's `conv`, `uid` and `active` are not program state: they record the
\* conversation that took the utterance, the user message, and whether that
\* conversation was active then.  `faults` are the steps of the assessment
\* engine that throw on this transcript.
ProcessUserSpeechFaulting(transcript, faults) ==
    /\ recognition \in {"active", "stopping"}
    /\ IF currentConversation = NULL
       THEN UNCHANGED << now, currentConversation, storage, recognition, mediaRecorder,
                         recorderStops, isListening, conversationStatus, replyTimers >>
       ELSE /\ now < MaxNow
            /\ now' = now + 1
            /\ Len(replyTimers) < MaxQueue
            /\ mediaRecorder = "recording" => recorderStops < MaxQueue
            /\ LET userMessage == UserMessageFaulting(now', transcript,
                                                      currentConversation.id, faults)
                   c == Push(currentConversation, userMessage)
                   stopped == stopListening(recognition, mediaRecorder, recorderStops,
                                            isListening, isSpeaking)
               IN  /\ currentConversation' = c
                   /\ storage' = saveCurrentConversation(storage, c)
                   /\ recognition' = stopped.recognition
                   /\ mediaRecorder' = stopped.mediaRecorder
                   /\ recorderStops' = stopped.recorderStops
                   /\ isListening' = stopped.isListening
                   /\ conversationStatus' = stopped.status
                   /\ replyTimers' = Append(replyTimers,
                                        [ transcript |-> transcript,
                                          conv       |-> c.id,
                                          uid        |-> userMessage.id,
                                          active     |-> isConversationActive ])
    /\ UNCHANGED << initialized, window, selectedTopic, isSpeaking, isConversationActive,
                    conversationHistory, synthesis, micRequests, resumeTimers >>
    /\ UNCHANGED lastConfirm

\* processUserSpeech(transcript) when no step of the assessment engine throws.
ProcessUserSpeech(transcript) == ProcessUserSpeechFaulting(transcript, {})

\* attachRecording without its saveCurrentConversation().
attachRecording_NoSave(conversation, store) ==
    LET msgs == IF conversation = NULL THEN << >> ELSE conversation.messages
        recording == [ url |-> ObjectUrl, blob |-> AudioBlob ]
    IN  IF Len(msgs) = 0
        THEN [ conversation |-> conversation, storage |-> store ]
        ELSE IF msgs[Len(msgs)].type = "user"
             THEN [ conversation |-> [conversation EXCEPT
                                        !.messages[Len(msgs)].audioUrl = ObjectUrl,
                                        !.audioRecordings = Append(@, recording)],
                    storage      |-> store ]
             ELSE [ conversation |-> [conversation EXCEPT
                                        !.audioRecordings = Append(@, recording)],
                    storage      |-> store ]

\* The body of mediaRecorder.onstop: the conversation and localStorage
\* afterwards.  The recording goes to the last message of whatever
\* conversation is current when the event is handled: attached to it (and
\* saved) when that is a user message, kept as an orphan (not saved) otherwise.
attachRecording(conversation, store) ==
    LET msgs == IF conversation = NULL THEN << >> ELSE conversation.messages
        recording == [ url |-> ObjectUrl, blob |-> AudioBlob ]
    IN  IF Len(msgs) = 0
        THEN [ conversation |-> conversation, storage |-> store ]
        ELSE IF msgs[Len(msgs)].type = "user"
             THEN LET c == [conversation EXCEPT
                              !.messages[Len(msgs)].audioUrl = ObjectUrl,
                              !.audioRecordings = Append(@, recording)]
                  IN  [ conversation |-> c,
                        storage      |-> saveCurrentConversation(store, c) ]
             ELSE [ conversation |-> [conversation EXCEPT
                                        !.audioRecordings = Append(@, recording)],
                    storage      |-> store ]

\* mediaRecorder.onstop that, with no current conversation, attaches the
\* recording to the conversation archived last.
MediaRecorderOnStop_AttachesToArchived ==
    /\ recorderStops > 0
    /\ currentConversation # NULL => Len(currentConversation.audioRecordings) < MaxQueue
    /\ recorderStops' = recorderStops - 1
    /\ IF currentConversation = NULL /\ conversationHistory # << >>
       THEN /\ conversationHistory' =
                  [conversationHistory EXCEPT
                     ![1] = attachRecording_NoSave(@, storage).conversation]
            /\ UNCHANGED << currentConversation, storage >>
       ELSE /\ LET attached == attachRecording(currentConversation, storage)
               IN  /\ currentConversation' = attached.conversation
                   /\ storage' = attached.storage
            /\ UNCHANGED conversationHistory
    /\ UNCHANGED << initialized, window, now, selectedTopic, isListening, isSpeaking,
                    isConversationActive, conversationStatus,
                    recognition, synthesis, mediaRecorder, micRequests, replyTimers,
                    resumeTimers >>
    /\ UNCHANGED lastConfirm

\* mediaRecorder.onstop
MediaRecorderOnStop ==
    /\ recorderStops > 0
    /\ currentConversation # NULL => Len(currentConversation.audioRecordings) < MaxQueue
    /\ recorderStops' = recorderStops - 1
    /\ LET attached == attachRecording(currentConversation, storage)
       IN  /\ currentConversation' = attached.conversation
           /\ storage' = attached.storage
    /\ UNCHANGED << initialized, window, now, selectedTopic, isListening, isSpeaking,
                    isConversationActive, conversationStatus, conversationHistory,
                    recognition, synthesis, mediaRecorder, micRequests, replyTimers,
                    resumeTimers >>
    /\ UNCHANGED lastConfirm

(***************************************************************************)
(* Speech output and the timers.                                           *)
(***************************************************************************)
\* utterance.onstart
UtteranceOnStart ==
    /\ Len(synthesis) > 0
    /\ Head(synthesis).st = "pending"
    /\ synthesis' = [synthesis EXCEPT ![1].st = "speaking"]
    /\ isSpeaking' = TRUE
    /\ conversationStatus' = updateStatus(isListening, TRUE)
    /\ UNCHANGED << initialized, window, now, selectedTopic, isListening,
                    isConversationActive, currentConversation, conversationHistory,
                    storage, recognition, mediaRecorder, recorderStops, micRequests,
                    replyTimers, resumeTimers >>
    /\ UNCHANGED lastConfirm

\* utterance.onend: the resume timer is scheduled whatever the state.
UtteranceOnEnd ==
    /\ Len(synthesis) > 0
    /\ Head(synthesis).st = "speaking"
    /\ Len(resumeTimers) < MaxQueue
    /\ synthesis' = Tail(synthesis)
    /\ isSpeaking' = FALSE
    /\ conversationStatus' = updateStatus(isListening, FALSE)
    /\ resumeTimers' = Append(resumeTimers, [ conv |-> Head(synthesis).conv ])
    /\ UNCHANGED << initialized, window, now, selectedTopic, isListening,
                    isConversationActive, currentConversation, conversationHistory,
                    storage, recognition, mediaRecorder, recorderStops, micRequests,
                    replyTimers >>
    /\ UNCHANGED lastConfirm

\* utterance.onerror: a synthesis failure, or the utterance was cancelled.
UtteranceOnError ==
    /\ Len(synthesis) > 0
    /\ synthesis' = Tail(synthesis)
    /\ isSpeaking' = FALSE
    /\ conversationStatus' = updateStatus(isListening, FALSE)
    /\ UNCHANGED << initialized, window, now, selectedTopic, isListening,
                    isConversationActive, currentConversation, conversationHistory,
                    storage, recognition, mediaRecorder, recorderStops, micRequests,
                    replyTimers, resumeTimers >>
    /\ UNCHANGED lastConfirm

\* The 800 ms timer of processUserSpeech expires: generateAIResponse with the
\* topic selected now and the random index r, then addAIMessage.
ReplyTimer(r) ==
    /\ Len(replyTimers) > 0
    /\ currentConversation = NULL \/ (now < MaxNow /\ Len(synthesis) < MaxQueue)
    /\ r \in RandomIndexes(Len(Responses(selectedTopic)))
    /\ now' = IF currentConversation = NULL THEN now ELSE now + 1
    /\ replyTimers' = Tail(replyTimers)
    /\ LET timer == Head(replyTimers)
           aiResponse == generateAIResponse(selectedTopic, timer.transcript, r)
           added == addAIMessage(window, currentConversation, storage, synthesis, now',
                                 aiResponse, timer.conv, timer.uid)
       IN  /\ currentConversation' = added.conversation
           /\ storage' = added.storage
           /\ synthesis' = added.queue
    /\ UNCHANGED << initialized, window, selectedTopic, isListening, isSpeaking,
                    isConversationActive, conversationStatus, conversationHistory,
                    recognition, mediaRecorder, recorderStops, micRequests,
                    resumeTimers >>
    /\ UNCHANGED lastConfirm

\* The 500 ms timer of utterance.onend expires.
ResumeTimer ==
    /\ Len(resumeTimers) > 0
    /\ resumeTimers' = Tail(resumeTimers)
    /\ IF isConversationActive
       THEN StartListeningCall
       ELSE UNCHANGED << now, isConversationActive, currentConversation, storage,
                         synthesis, micRequests >>
    /\ UNCHANGED << initialized, window, selectedTopic, isListening, isSpeaking,
                    conversationStatus, conversationHistory, recognition, mediaRecorder,
                    recorderStops, replyTimers >>
    /\ UNCHANGED lastConfirm

(***************************************************************************)
(* Specifications.                                                         *)
(***************************************************************************)
Next ==
    \/ NgOnInit
    \/ StartNewConversation
    \/ EndConversation
    \/ PauseConversation
    \/ StartListening
    \/ MicrophoneGranted
    \/ MicrophoneDenied
    \/ StopListening
    \/ RecognitionOnStart
    \/ RecognitionOnEnd
    \/ RecognitionOnError
    \/ \E transcript \in Transcripts : ProcessUserSpeech(transcript)
    \/ MediaRecorderOnStop
    \/ UtteranceOnStart
    \/ UtteranceOnEnd
    \/ UtteranceOnError
    \/ \E r \in RandomDraws : ReplyTimer(r)
    \/ ResumeTimer

\* The turn-taking controller in a browser with every speech interface, on a
\* first visit, the topic left as it is.
Spec == Init /\ [][Next]_vars

\* A conversation an earlier session started at time -2i - 1 and closed at
\* time -2i, as JSON.parse returns it.
PriorConversation(i) ==
    LET c == NewConversation(-2 * i - 1, "daily-life")
    IN  [ Push(c, AIMessage(-2 * i - 1, << "", generateGreeting("daily-life") >>, c.id))
            EXCEPT !.endTime = toISOString(-2 * i) ]

\* The history an earlier session left: n conversations, most recent first.
PriorHistory(n) == [ i \in 1..n |-> PriorConversation(i) ]

\* Lengths of the history left by earlier sessions.
PriorLengths == {0, HistoryCap - 1, HistoryCap}

\* The conversation an earlier session started at time -1 and left open.
PriorOpenConversation ==
    LET c == NewConversation(-1, "food")
    IN  Push(c, AIMessage(-1, << "", generateGreeting("food") >>, c.id))

\* What the key 'conversationHistory' holds when the component starts: nothing,
\* the history an earlier session saved, or a string something else wrote.
PriorHistorySnapshots ==
    { IF n = 0 THEN NULL ELSE Stringify(PriorHistory(n)) : n \in PriorLengths }
        \cup { Unparsable, NotIterable }

\* What the key 'currentConversation' holds when the component starts.
PriorCurrentSnapshots == { NULL, Stringify(PriorOpenConversation), Unparsable }

\* A browser without speech recognition and speech synthesis, with what
\* earlier sessions of the component left in localStorage.
InitStore ==
    /\ Constructed
    /\ window = [ SpeechRecognition |-> FALSE, speechSynthesis |-> FALSE ]
    /\ \E saved \in PriorHistorySnapshots, current \in PriorCurrentSnapshots :
          storage = [ conversationHistory |-> saved, currentConversation |-> current ]

NextStore ==
    \/ NgOnInit
    \/ StartNewConversation
    \/ EndConversation
    \/ PauseConversation
    \/ StartListening
    \/ \E topic \in Topics : SelectTopic(topic)
    \/ \E confirmed \in BOOLEAN : ClearHistory(confirmed)

\* The conversation store: the life cycle of conversations and the history.
SpecStore == InitStore /\ [][NextStore]_vars

\* A browser with speech recognition and without speech synthesis
\* (speakResponse returns at once), on a first visit.
InitCapture ==
    /\ Constructed
    /\ window = [ SpeechRecognition |-> TRUE, speechSynthesis |-> FALSE ]
    /\ storage = EmptyStorage

NextCapture ==
    \/ NgOnInit
    \/ StartNewConversation
    \/ EndConversation
    \/ PauseConversation
    \/ \E confirmed \in BOOLEAN : ClearHistory(confirmed)
    \/ StartListening
    \/ MicrophoneGranted
    \/ MicrophoneDenied
    \/ StopListening
    \/ RecognitionOnStart
    \/ RecognitionOnEnd
    \/ RecognitionOnError
    \/ \E transcript \in Transcripts : ProcessUserSpeech(transcript)
    \/ MediaRecorderOnStop
    \/ \E r \in RandomDraws : ReplyTimer(r)

\* Listening, audio capture and the messages they produce, with the history.
SpecCapture == InitCapture /\ [][NextCapture]_vars

\* A browser with speech recognition and without speech synthesis, in which
\* earlier sessions left a full history and no open conversation.
InitArchive ==
    /\ Constructed
    /\ window = [ SpeechRecognition |-> TRUE, speechSynthesis |-> FALSE ]
    /\ storage = [ conversationHistory |-> Stringify(PriorHistory(HistoryCap)),
                   currentConversation |-> NULL ]

NextArchive ==
    \/ NgOnInit
    \/ StartNewConversation
    \/ EndConversation
    \/ \E confirmed \in BOOLEAN : ClearHistory(confirmed)
    \/ StartListening
    \/ MicrophoneGranted
    \/ RecognitionOnStart
    \/ \E transcript \in Transcripts : ProcessUserSpeech(transcript)
    \/ MediaRecorderOnStop
    \/ \E r \in RandomDraws : ReplyTimer(r)

\* The events that follow an archival, on top of a full history.
SpecArchive == InitArchive /\ [][NextArchive]_vars

\* A browser with speech recognition and without speech synthesis, on a first
\* visit.
InitAssess ==
    /\ Constructed
    /\ window = [ SpeechRecognition |-> TRUE, speechSynthesis |-> FALSE ]
    /\ storage = EmptyStorage

NextAssess ==
    \/ NgOnInit
    \/ \E topic \in Topics : SelectTopic(topic)
    \/ StartListening
    \/ MicrophoneGranted
    \/ RecognitionOnStart
    \/ \E transcript \in AssessedTranscripts : ProcessUserSpeech(transcript)
    \/ \E r \in RandomIndexes(4) : ReplyTimer(r)

\* What the user says and what the tutor answers: the assessment of each
\* transcript and the reply to it, for every sentence of the pools.
SpecAssess == InitAssess /\ [][NextAssess]_vars

\* The transcripts whose correction and score differ from the defaults.
FaultTranscripts == { HeGoToSchool, EveryBonus }

\* A browser with speech recognition and without speech synthesis, on a first
\* visit.
InitFault ==
    /\ Constructed
    /\ window = [ SpeechRecognition |-> TRUE, speechSynthesis |-> FALSE ]
    /\ storage = EmptyStorage

NextFault ==
    \/ NgOnInit
    \/ EndConversation
    \/ StartListening
    \/ MicrophoneGranted
    \/ RecognitionOnStart
    \/ \E transcript \in FaultTranscripts, faults \in SUBSET AssessmentSteps :
          ProcessUserSpeechFaulting(transcript, faults)
    \/ MediaRecorderOnStop
    \/ \E r \in RandomDraws : ReplyTimer(r)

\* Utterances on which the assessment engine throws.
SpecFault == InitFault /\ [][NextFault]_vars

(***************************************************************************)
(* Turn-taking.                                                            *)
(***************************************************************************)
\* A reply timer expires in this step (timers leave the list only by expiring).
ReplyTimerExpires == Len(replyTimers') < Len(replyTimers)

\* A resume timer expires in this step.
ResumeTimerExpires == Len(resumeTimers') < Len(resumeTimers)

\* A getUserMedia promise settles in this step.
MicrophoneSettles == micRequests' < micRequests

\* The utterances of the queue that speak the reply to user message uid and
\* are still to be spoken or being spoken.
RepliesQueued(queue, uid) ==
    { i \in 1..Len(queue) : queue[i].uid = uid /\ queue[i].st \in {"pending", "speaking"} }

\* The conversation `id` is the current one and is active.
StillActive(id) ==
    /\ isConversationActive
    /\ currentConversation # NULL
    /\ currentConversation.id = id

\* C1: for every utterance accepted by onTranscript, under any interleaving of
\* pause(), endConversation(), startConversation() and speech-output events,
\* the controller enters speaking exactly once for that utterance (and then
\* returns to listening or idle).  Entering speaking for an utterance needs
\* its reply handed to the speech output when the reply timer expires: at
\* every expiry, exactly one utterance speaking the reply is queued.
C1_SpeaksOncePerUtterance ==
    [][ ReplyTimerExpires =>
          Cardinality(RepliesQueued(synthesis', Head(replyTimers).uid)) = 1 ]_vars

\* C2: the controller is never listening and speaking at the same time: speech
\* output is stopped before listening begins, and listening is stopped before
\* speech output begins.
C2_ListeningExcludesSpeaking == ~(isListening /\ isSpeaking)

\* C3: the reply timer is cancelled by pause() and endConversation(): when the
\* conversation that recorded the utterance was paused, ended or replaced
\* before the delay expires, the expiry appends no system message to any
\* conversation and starts no speech output.
C3_StaleReplyTimerDoesNothing ==
    [][ (/\ ReplyTimerExpires
         /\ Head(replyTimers).active
         /\ ~StillActive(Head(replyTimers).conv)) =>
          UNCHANGED << currentConversation, conversationHistory, synthesis >> ]_vars

\* C4: a resume timer scheduled when the speech of one conversation ended
\* never starts listening for another conversation: if that conversation is
\* no longer the current one when the timer expires, startListening is not
\* called (no microphone request is made, no conversation is created).
C4_StaleResumeTimerDoesNotListen ==
    [][ (ResumeTimerExpires /\
            ~(currentConversation # NULL /\
              currentConversation.id = Head(resumeTimers).conv)) =>
          UNCHANGED << micRequests, currentConversation >> ]_vars

\* C5: when the microphone acquisition completes after pause() or
\* endConversation(), the completion has no side effect: audio capture and
\* transcription are not started.
C5_LateMicrophoneDoesNothing ==
    [][ (MicrophoneSettles /\ ~isConversationActive) =>
          UNCHANGED << mediaRecorder, recognition, isListening >> ]_vars

(***************************************************************************)
(* The conversation store.                                                 *)
(***************************************************************************)
\* C8: there is one active conversation, and startConversation fully replaces
\* the prior one: the active conversation holds only messages produced for
\* it, never a message originating from a replaced conversation.
C8_OnlyOwnMessages ==
    currentConversation # NULL =>
        \A i \in 1..Len(currentConversation.messages) :
            currentConversation.messages[i].conv = currentConversation.id

\* What the round trip must keep: the messages, the topic and the timestamps.
Essence(c) ==
    << c.messages, c.topic, c.startTime, c.endTime >>

\* The current conversation or its messages change in this step (a message is
\* appended, an audio recording is attached to a message, or a conversation
\* is created).
ConversationMutates ==
    /\ currentConversation' # NULL
    /\ \/ currentConversation = NULL
       \/ Essence(currentConversation') # Essence(currentConversation)

\* C10: write-through round trip: after every operation that mutates the
\* active conversation (message append, late audio attachment) the persisted
\* snapshot restores to a record with the same messages, topic and timestamps.
C10_WriteThroughRoundTrip ==
    [][ ConversationMutates =>
          /\ storage'.currentConversation # NULL
          /\ Essence(Parse(storage'.currentConversation)) = Essence(currentConversation')
      ]_vars

\* A recording was attached to a user message of the current conversation,
\* and the snapshot restores to the same messages although the restored
\* record differs from the one in memory (the Blob does not survive).
C10_Witness ==
    /\ currentConversation # NULL
    /\ \E i \in 1..Len(currentConversation.messages) :
           currentConversation.messages[i].audioUrl # NULL
    /\ storage.currentConversation # NULL
    /\ Essence(Parse(storage.currentConversation)) = Essence(currentConversation)
    /\ Parse(storage.currentConversation) # currentConversation

\* The conversations of h are ordered most recent first.
MostRecentFirst(h) ==
    \A i, j \in 1..Len(h) : i < j => h[i].endTime.iso > h[j].endTime.iso

\* A conversation with messages is closed in this step (only endConversation
\* sets this.currentConversation to null), which is when it is archived.
Archives ==
    /\ currentConversation # NULL
    /\ Len(currentConversation.messages) > 0
    /\ currentConversation' = NULL

\* C6: after any sequence of archival operations the history holds at most 50
\* conversations, most recent first, and an archival into a full history
\* drops the oldest entry: the archived conversation comes first and the
\* former entries follow in their order, all of them or the first 49.
C6_HistoryCapped ==
    /\ [](/\ Len(conversationHistory) <= HistoryCap
          /\ MostRecentFirst(conversationHistory))
    /\ [][ Archives =>
             LET old == conversationHistory
                 new == conversationHistory'
             IN  /\ new # << >>
                 /\ new[1].id = currentConversation.id
                 /\ new[1].messages = currentConversation.messages
                 /\ Len(new) = IF Len(old) < HistoryCap THEN Len(old) + 1 ELSE HistoryCap
                 /\ SubSeq(new, 2, Len(new)) = SubSeq(old, 1, Len(new) - 1) ]_vars

\* Two conversations were archived in this session into a history that held
\* 49 or 50: the history is full and the oldest entries are gone.
C6_Witness ==
    /\ initialized
    /\ Len(conversationHistory) = HistoryCap
    /\ conversationHistory[2].endTime.iso > 0
    /\ conversationHistory[HistoryCap] = PriorConversation(HistoryCap - 2)

\* C9: clearAll() with confirmation granted leaves the history empty, in
\* memory and persisted, and the persisted active snapshot absent; with
\* confirmation declined it leaves the history, the persisted history and the
\* active snapshot unchanged.
C9_ClearAll ==
    [][ /\ ClearHistory(TRUE) =>
             /\ conversationHistory' = << >>
             /\ storage'.conversationHistory = NULL
             /\ storage'.currentConversation = NULL
        /\ ClearHistory(FALSE) =>
             UNCHANGED << conversationHistory, storage >> ]_vars

\* The last confirm() was granted over a history of three conversations or
\* more, with a snapshot of the active conversation persisted: both are gone.
C9_Witness ==
    /\ lastConfirm.answer = "yes"
    /\ lastConfirm.entries >= 3
    /\ currentConversation # NULL
    /\ conversationHistory = << >>
    /\ storage = EmptyStorage

(***************************************************************************)
(* Assessment and replies.                                                 *)
(***************************************************************************)
\* The user messages of the current conversation.
UserMessages ==
    IF currentConversation = NULL THEN {}
    ELSE { currentConversation.messages[i] : i \in
             { j \in DOMAIN currentConversation.messages :
                 currentConversation.messages[j].type = "user" } }

\* The transcripts in which he, she or it is directly followed by the plain
\* verb form "go".
SingularThenGo ==
    { t \in AllTranscripts :
        AgreementRule(toLowerCase(t), SingularPronouns, << "g", "o" >>) }

\* The transcripts in which I, you, we or they is directly followed by "goes".
PluralThenGoes ==
    { t \in AllTranscripts :
        AgreementRule(toLowerCase(t), PluralPronouns, << "g", "o", "e", "s" >>) }

\* The table entries whose phrase the lower-cased transcript contains.
TableHits ==
    [ t \in AllTranscripts |->
        { n \in DOMAIN corrections : IncludesText(toLowerCase(t), corrections[n].bad) } ]

\* C11 as stated: every text in which he, she or it is directly followed by
\* "go" ("he go to school" among them) gets the agreement advisory for
\* {he, she, it}, not a table suggestion.
C11_AdvisoryForHeGo ==
    \A m \in UserMessages : m.text \in SingularThenGo => m.correction = UseGoesAdvice

\* C11 as amended: the table is consulted first, so "he go to school" gets the
\* table suggestion 'he goes', as does every text that contains a phrase of
\* the table; the advisory for {he, she, it} is returned when no phrase of the
\* table occurs, the {I, you, we, they} rule does not match, and he, she or it
\* is directly followed by "go".
C11_TableBeforeRules ==
    \A m \in UserMessages :
        /\ m.text = HeGoToSchool => m.correction = DidYouMean("he goes")
        /\ TableHits[m.text] # {} =>
              \E n \in TableHits[m.text] : m.correction = DidYouMean(corrections[n].good)
        /\ (TableHits[m.text] = {} /\ m.text \notin PluralThenGoes
                                   /\ m.text \in SingularThenGo)
              => m.correction = UseGoesAdvice

C11_Witness ==
    /\ \E m \in UserMessages :
          m.text = HeGoToSchool /\ m.correction = DidYouMean("he goes")
    /\ \E m \in UserMessages :
          m.text = ItGoThere /\ m.correction = UseGoesAdvice

\* C12: the pronunciation score of every text is a whole number from 0 to
\* 100: of every transcript a user message records, the one that earns every
\* bonus included, and of the empty text (which no user message records:
\* recognition.onresult drops a blank transcript).
C12_ScoreInRange ==
    /\ \A m \in UserMessages : m.pronunciationScore \in 0..100
    /\ assessPronunciation(<< >>) \in 0..100

C12_Witness ==
    \E m \in UserMessages :
        /\ m.text = EveryBonus
        /\ RawScore(m.text) > 100
        /\ m.pronunciationScore = 100

\* The number of words of a text.
WordCount(text) ==
    Cardinality({ i \in 1..Len(text) :
                    text[i] # " " /\ (i = 1 \/ text[i - 1] = " ") })

\* The reply the expiring timer appends.
AppendedReply == currentConversation'.messages[Len(currentConversation'.messages)]

C14_PauseAndEndStopEverything ==
    [][ (PauseConversation \/ EndConversation) =>
          /\ ~isListening'
          /\ recognition' \notin {"starting", "active"}
          /\ ~isSpeaking'
          /\ \A i \in DOMAIN synthesis' : synthesis'[i].st = "cancelled"
          /\ conversationStatus' = "idle"
          /\ PauseConversation =>
                UNCHANGED << currentConversation, conversationHistory >>
      ]_vars

\* The last message of the current conversation is a user message whose
\* reply timer has not expired.
AwaitingReply ==
    /\ currentConversation # NULL
    /\ currentConversation.messages # << >>
    /\ LET last == currentConversation.messages[Len(currentConversation.messages)]
       IN  /\ last.type = "user"
           /\ \E i \in DOMAIN replyTimers : replyTimers[i].uid = last.id

\* C15: from the recording of the user message until its reply is appended
\* the status is processing.
C15_ProcessingUntilReply == AwaitingReply => conversationStatus = "processing"

\* C16: startListening() creates a conversation only when none is held; a
\* conversation that is held, a paused one included, keeps its identifier and
\* its messages.
C16_ListeningKeepsConversation ==
    [][ (StartListening /\ currentConversation # NULL) =>
          /\ currentConversation' # NULL
          /\ currentConversation'.id = currentConversation.id
          /\ currentConversation'.messages = currentConversation.messages
      ]_vars

(***************************************************************************)
(* Archiving.                                                              *)
(***************************************************************************)
\* The history holds the conversation with this identifier.
Archived(history, id) == \E i \in DOMAIN history : history[i].id = id

\* The step puts a new conversation in the place of one that has messages.
Replaces ==
    /\ currentConversation # NULL
    /\ currentConversation.messages # << >>
    /\ currentConversation' # NULL
    /\ currentConversation'.id # currentConversation.id

\* C17: a conversation with messages that is replaced by a new one (by
\* startNewConversation, by startListening, or at startup after it was
\* restored from the snapshot) is in the history afterwards.
C17_ReplacedIsArchived ==
    [][ /\ Replaces => Archived(conversationHistory', currentConversation.id)
        /\ (NgOnInit /\ loadHistory(storage).conversation # NULL) =>
              Archived(conversationHistory', loadHistory(storage).conversation.id)
      ]_vars

C19_OwnTopic ==
    currentConversation # NULL =>
        \A i \in DOMAIN currentConversation.messages :
            LET m == currentConversation.messages[i]
                pool == Responses(currentConversation.topic)
            IN  m.type = "ai" =>
                    IF i = 1
                    THEN m.text = << "", Greetings(currentConversation.topic) >>
                    ELSE \E n \in DOMAIN pool : m.text[2] = pool[n]

\* C20: loadHistory() at startup never raises; a corrupt snapshot (either
\* key) gives an empty history and no current conversation, a missing one
\* gives an empty history (the history) or no current conversation (the
\* current conversation), and two well-formed ones are restored as persisted.
C20_LoadOnStartup ==
    [][ NgOnInit =>
          LET saved == storage.conversationHistory
              current == storage.currentConversation
              loaded == loadHistory(storage)
              corrupt == saved \in {Unparsable, NotIterable} \/ current = Unparsable
          IN  /\ conversationHistory' = loaded.history
              /\ corrupt => /\ loaded.history = << >>
                            /\ loaded.conversation = NULL
                            /\ ~loaded.active
              /\ saved = NULL => loaded.history = << >>
              /\ current = NULL => loaded.conversation = NULL /\ ~loaded.active
              /\ (~corrupt /\ saved # NULL /\ current # NULL) =>
                    /\ loaded.history = Parse(saved)
                    /\ loaded.conversation = Parse(current)
                    /\ loaded.active
      ]_vars

(***************************************************************************)
(* Faults of the assessment engine.                                        *)
(***************************************************************************)
\* The last message of the current conversation after the step.
LastMessageAfter == currentConversation'.messages[Len(currentConversation'.messages)]

\* C21: when the correction step or the scoring step throws on an utterance,
\* the user message is still appended to the current conversation, with no
\* correction (correction step), the score 70 and the feedback of the 70
\* band (scoring step), and the reply is scheduled; the reply then follows.
C21_FaultsDegradeToDefaults ==
    [][ /\ \A transcript \in FaultTranscripts, faults \in SUBSET AssessmentSteps :
              ( /\ faults # {}
                /\ currentConversation # NULL
                /\ ProcessUserSpeechFaulting(transcript, faults) ) =>
                  /\ currentConversation' # NULL
                  /\ Len(currentConversation'.messages)
                        = Len(currentConversation.messages) + 1
                  /\ LastMessageAfter.type = "user"
                  /\ LastMessageAfter.text = transcript
                  /\ "correction" \in faults => LastMessageAfter.correction = NULL
                  /\ "scoring" \in faults =>
                        /\ LastMessageAfter.pronunciationScore = 70
                        /\ LastMessageAfter.pronunciationFeedback
                              = "Good effort! Focus on clarity and word stress."
                  /\ \E i \in DOMAIN replyTimers' :
                        replyTimers'[i].uid = LastMessageAfter.id
        /\ (ReplyTimerExpires /\ currentConversation # NULL) =>
              /\ Len(currentConversation'.messages)
                    = Len(currentConversation.messages) + 1
              /\ LastMessageAfter.type = "ai"
      ]_vars

C21_Witness ==
    /\ currentConversation # NULL
    /\ \E i \in DOMAIN currentConversation.messages :
          /\ i > 1
          /\ currentConversation.messages[i - 1].type = "user"
          /\ currentConversation.messages[i - 1].text = EveryBonus
          /\ currentConversation.messages[i - 1].correction = NULL
          /\ currentConversation.messages[i - 1].pronunciationScore = 70
          /\ currentConversation.messages[i - 1].pronunciationFeedback
                = "Good effort! Focus on clarity and word stress."
          /\ currentConversation.messages[i].type = "ai"

(***************************************************************************)
(* The history after archival.                                             *)
(***************************************************************************)
\* The history, in memory and in localStorage, is what it was.
HistoryKept ==
    /\ conversationHistory' = conversationHistory
    /\ storage'.conversationHistory = storage.conversationHistory

\* The step puts one conversation at the head of the history: the former
\* entries follow unchanged, in their order, up to the cap.
HistoryShifts ==
    /\ Len(conversationHistory') = Min(Len(conversationHistory) + 1, HistoryCap)
    /\ \A i \in DOMAIN conversationHistory :
          i < HistoryCap => conversationHistory'[i + 1] = conversationHistory[i]
    /\ storage'.conversationHistory =
          Stringify([ i \in DOMAIN conversationHistory' |->
                        StringifyConversation(conversationHistory'[i]) ])

\* C22: once the component has started, a conversation in the history is
\* never modified: every step either leaves the history as it was (in memory
\* and in localStorage), or is a confirmed clearHistory, or is the archival of
\* the current conversation, which moves the former entries down by one
\* unchanged and drops only what falls beyond the cap of 50.
C22_ArchivedIsFrozen ==
    [][ initialized =>
          \/ HistoryKept
          \/ ClearHistory(TRUE)
          \/ /\ Archives
             /\ conversationHistory'[1].id = currentConversation.id
             /\ HistoryShifts
      ]_vars

\* A conversation was archived into the full history with its user message
\* still waiting for the reply and for the recording; the oldest entry was
\* dropped, and the reply timer and the recorder's stop were handled after
\* that, with no conversation open.
C22_Witness ==
    /\ initialized
    /\ currentConversation = NULL
    /\ Len(conversationHistory) = HistoryCap
    /\ conversationHistory[HistoryCap] = Parse(Stringify(PriorHistory(HistoryCap)))[HistoryCap - 1]
    /\ LET archived == conversationHistory[1]
       IN  /\ archived.messages # << >>
           /\ archived.messages[Len(archived.messages)].type = "user"
           /\ archived.messages[Len(archived.messages)].audioUrl = NULL
           /\ archived.audioRecordings = << >>
    /\ mediaRecorder = "inactive"
    /\ recorderStops = 0
    /\ replyTimers = << >>

====
